---------------------------- MODULE Spec2Model ----------------------------
(***************************************************************************)
(* Model of src/retirement_plan.py: the three-phase retirement projection. *)
(*                                                                         *)
(* The script runs once, top to bottom, on the values read from the        *)
(* sidebar widgets.  The model follows it statement group by statement     *)
(* group (pc is the position in the script) and loop iteration by loop     *)
(* iteration.                                                              *)
(*                                                                         *)
(* Numbers.  Money amounts are integers (whole minor units).  A float      *)
(* factor such as 1 + rate/100/12 is a fixed-point number with FScale      *)
(* units per 1.0; every product amount * factor is rounded down to a whole *)
(* unit, the way every float operation rounds its result.  Rates are whole *)
(* percents.                                                               *)
(***************************************************************************)
EXTENDS Integers, Sequences, FiniteSets, TLC

\* ---------------------------------------------------------------- bounds
\* Ages are drawn from windows inside the widget ranges of lines 10-13
\* (age 18..100, preretirement 40..100, retirement 50..100, life 60..120).
MinAge == 58
MaxAge == 61
MinLife == 60
MaxLife == 62
\* Non-zero values of the financial inputs (each input is 0 or this value).
SavingsAmount == 20000
ContribAmount == 500
NeedAmount == 400
WantAmount == 100
AccumulationRate == 12
PreretirementRate == 6
PostRetirementRate == 3
InflationRate == 10
\* Fixed-point resolution of factors: FScale units per 1.0.
FScale == 10000

\* ------------------------------------------------------ program constants
MonthsPerYear == 12
Percent == 100

VARIABLES
    \* sidebar inputs, lines 10-25
    age, preretirement_start_age, retirement_age, life_expectancy,
    current_savings, monthly_savings,
    accumulation_return, preretirement_return, post_retirement_return,
    inflation_rate, current_need_expenses, current_want_expenses,
    \* lines 28-30
    future_need_expenses, future_want_expenses, future_monthly_expenses,
    \* lines 75-83
    accumulation_years, preretirement_years, retirement_years,
    accumulation_balance, preretirement_balance,
    \* locals of simulate_withdrawals, lines 53-72
    sw_start_balance, sw_monthly_expenses, sw_total_expenses,
    sw_balances, sw_cumulative_expenses, sw_year,
    \* lines 86-88
    retirement_balances, cumulative_expenses,
    \* lines 91-109: the dict (keys in insertion order, and its values)
    balance_keys, balance_data, current_balance, year,
    \* lines 112-115: balance_df (index, "Balance", "Cumulative Expenses")
    df_index, df_balance, df_cumulative,
    \* lines 121, 160-165
    verdict,
    pc

inputs == <<age, preretirement_start_age, retirement_age, life_expectancy,
            current_savings, monthly_savings,
            accumulation_return, preretirement_return, post_retirement_return,
            inflation_rate, current_need_expenses, current_want_expenses>>
futures == <<future_need_expenses, future_want_expenses, future_monthly_expenses>>
phases == <<accumulation_years, preretirement_years, retirement_years,
            accumulation_balance, preretirement_balance>>
swlocals == <<sw_start_balance, sw_monthly_expenses, sw_total_expenses,
              sw_balances, sw_cumulative_expenses, sw_year>>
swresult == <<retirement_balances, cumulative_expenses>>
timeline == <<balance_keys, balance_data, current_balance, year>>
frame == <<df_index, df_balance, df_cumulative>>

vars == <<inputs, futures, phases, swlocals, swresult, timeline, frame, verdict, pc>>

\* ------------------------------------------------------------ arithmetic
\* Python's None / a missing cell: the empty option; a value v is <<v>>.
None == <<>>
Some(v) == <<v>>

Max(a, b) == IF a >= b THEN a ELSE b

\* rate / 100 / k as a fixed-point number (lines 34, 54, 55; k = 12 or 1).
RatePerPeriod(rate, k) == ((rate * FScale) \div Percent) \div k

\* amount * factor, rounded to a whole unit.
MulF(x, f) == (x * f) \div FScale

\* f ** n for an integer n of either sign (lines 28-29).
RECURSIVE PowNat(_, _)
PowNat(f, n) == IF n = 0 THEN FScale ELSE (PowNat(f, n - 1) * f) \div FScale
PowF(f, n) == IF n >= 0 THEN PowNat(f, n) ELSE (FScale * FScale) \div PowNat(f, 0 - n)

\* len(range(a, b)): empty when b <= a.
RangeLen(a, b) == Max(b - a, 0)

\* The ages a .. b-1 of range(a, b) as a sequence.
RangeSeq(a, b) == [i \in 1..RangeLen(a, b) |-> a + i - 1]


\* ------------------------------------------------------- helper functions
\* The month loop of calculate_phase_balance, lines 36-37.
RECURSIVE MonthLoop(_, _, _, _)
MonthLoop(balance, monthly_contrib, rate, months) ==
    IF months <= 0 THEN balance
    ELSE MonthLoop(MulF(balance, FScale + rate) + monthly_contrib,
                   monthly_contrib, rate, months - 1)

\* months = years * 12 (line 35) written as months = years.
MonthsOf_NoTimes12(years) == years
\* line 35; years is an integer here, so round(months) = months.
MonthsOf(years) == years * MonthsPerYear

\* lines 33-39
calculate_phase_balance(start_balance, monthly_contrib, rate, years) ==
    MonthLoop(start_balance, monthly_contrib,
              RatePerPeriod(rate, MonthsPerYear), MonthsOf(years))

\* line 64 without the clamp.
Clamp_Unclamped(balance) == balance
\* line 64: max(start_balance, 0)
Clamp(balance) == Max(balance, 0)

\* lines 70-71 with the break removed.
LoopBreaks_Never(balance) == FALSE
\* lines 70-71: if start_balance <= 0: break
LoopBreaks(balance) == balance <= 0

\* line 63 written as total_expenses = annual_expenses.
AddExpense_Overwrite(total, annual) == annual
\* line 63: total_expenses += annual_expenses
AddExpense(total, annual) == total + annual

\* line 75 without the clamp.
AccumulationYears_Unclamped(a, p) == p - a
\* line 75
AccumulationYears(a, p) == Max(p - a, 0)

\* line 76 with the phase started at the later of the two ages.
PreretirementYears_FromAge(a, p, r) == Max(r - Max(p, a), 0)
\* line 76 (the current age is not used)
PreretirementYears(a, p, r) == Max(r - p, 0)

\* line 77
RetirementYears(r, l) == Max(l - r, 0)

\* line 160 accepting a balance of exactly 0.
FundsLast_NonStrict(balances) == balances /= <<>> /\ balances[Len(balances)] >= 0
\* line 160: retirement_balances and retirement_balances[-1] > 0
FundsLast(balances) == balances /= <<>> /\ balances[Len(balances)] > 0

\* line 114: the i-th (from 1) element of range(retirement_age, ...)
CumulativeKey(r, i) == r + i - 1

\* dict / DataFrame cell assignment: a new key is appended after the others.
KeysWith(keys, data, k) == IF k \in DOMAIN data THEN keys ELSE Append(keys, k)
DataWith(data, k, v) == [x \in (DOMAIN data) \cup {k} |-> IF x = k THEN v ELSE data[x]]
\* A column gains an empty cell when another column's assignment adds a row.
RowWith(data, k) == [x \in (DOMAIN data) \cup {k} |-> IF x \in DOMAIN data THEN data[x] ELSE None]

\* ------------------------------------------------------------------ Init
Init ==
    /\ age \in MinAge..MaxAge
    /\ preretirement_start_age \in MinAge..MaxAge
    /\ retirement_age \in MinAge..MaxAge
    /\ life_expectancy \in MinLife..MaxLife
    /\ current_savings \in {0, SavingsAmount}
    /\ monthly_savings \in {0, ContribAmount}
    /\ accumulation_return \in {0, AccumulationRate}
    /\ preretirement_return \in {0, PreretirementRate}
    /\ post_retirement_return \in {0, PostRetirementRate}
    /\ inflation_rate \in {0, InflationRate}
    /\ current_need_expenses \in {0, NeedAmount}
    /\ current_want_expenses \in {0, WantAmount}
    /\ future_need_expenses = 0 /\ future_want_expenses = 0
    /\ future_monthly_expenses = 0
    /\ accumulation_years = 0 /\ preretirement_years = 0 /\ retirement_years = 0
    /\ accumulation_balance = 0 /\ preretirement_balance = 0
    /\ sw_start_balance = 0 /\ sw_monthly_expenses = 0 /\ sw_total_expenses = 0
    /\ sw_balances = <<>> /\ sw_cumulative_expenses = <<>> /\ sw_year = 0
    /\ retirement_balances = <<>> /\ cumulative_expenses = <<>>
    /\ balance_keys = <<>> /\ balance_data = <<>>
    /\ current_balance = 0 /\ year = 0
    /\ df_index = <<>> /\ df_balance = <<>> /\ df_cumulative = <<>>
    /\ verdict = "none"
    /\ pc = "inflation"

\* --------------------------------------------------------------- actions
\* lines 28-30
AdjustForInflation ==
    /\ pc = "inflation"
    /\ LET growth == PowF(FScale + RatePerPeriod(inflation_rate, 1),
                          retirement_age - age)
           need == MulF(current_need_expenses, growth)
           want == MulF(current_want_expenses, growth)
       IN /\ future_need_expenses' = need
          /\ future_want_expenses' = want
          /\ future_monthly_expenses' = need + want
    /\ pc' = "phases"
    /\ UNCHANGED <<inputs, phases, swlocals, swresult, timeline, frame, verdict>>

\* lines 75-83, and the entry of simulate_withdrawals (lines 86-87, 54-58)
PhaseCalculations ==
    /\ pc = "phases"
    /\ LET ay == AccumulationYears(age, preretirement_start_age)
           py == PreretirementYears(age, preretirement_start_age, retirement_age)
           ab == calculate_phase_balance(current_savings, monthly_savings,
                                         accumulation_return, ay)
           pb == calculate_phase_balance(ab, monthly_savings,
                                         preretirement_return, py)
       IN /\ accumulation_years' = ay
          /\ preretirement_years' = py
          /\ retirement_years' = RetirementYears(retirement_age, life_expectancy)
          /\ accumulation_balance' = ab
          /\ preretirement_balance' = pb
          /\ sw_start_balance' = pb
    /\ sw_monthly_expenses' = future_monthly_expenses
    /\ sw_total_expenses' = 0
    /\ sw_balances' = <<>>
    /\ sw_cumulative_expenses' = <<>>
    /\ sw_year' = 0
    /\ pc' = "withdraw"
    /\ UNCHANGED <<inputs, futures, swresult, timeline, frame, verdict>>

\* lines 60-71: one iteration of the loop of simulate_withdrawals
SimulateYear ==
    /\ pc = "withdraw"
    /\ sw_year < retirement_years
    /\ LET annual_expenses == sw_monthly_expenses * MonthsPerYear
           balance == MulF(sw_start_balance,
                           FScale + RatePerPeriod(post_retirement_return, 1))
                      - annual_expenses
           total == AddExpense(sw_total_expenses, annual_expenses)
       IN /\ sw_start_balance' = balance
          /\ sw_total_expenses' = total
          /\ sw_balances' = Append(sw_balances, Clamp(balance))
          /\ sw_cumulative_expenses' = Append(sw_cumulative_expenses, total)
          /\ sw_monthly_expenses' =
                 MulF(sw_monthly_expenses, FScale + RatePerPeriod(inflation_rate, 1))
          /\ pc' = IF LoopBreaks(balance) THEN "withdraw_return" ELSE "withdraw"
    /\ sw_year' = sw_year + 1
    /\ UNCHANGED <<inputs, futures, phases, swresult, timeline, frame, verdict>>

\* line 60: range(years) is exhausted
SimulateLoopEnd ==
    /\ pc = "withdraw"
    /\ sw_year >= retirement_years
    /\ pc' = "withdraw_return"
    /\ UNCHANGED <<inputs, futures, phases, swlocals, swresult, timeline, frame, verdict>>

\* lines 72, 86
SimulateReturn ==
    /\ pc = "withdraw_return"
    /\ retirement_balances' = sw_balances
    /\ cumulative_expenses' = sw_cumulative_expenses
    /\ pc' = "combine"
    /\ UNCHANGED <<inputs, futures, phases, swlocals, timeline, frame, verdict>>

\* lines 91-95
InitTimeline ==
    /\ pc = "combine"
    /\ balance_keys' = RangeSeq(age, life_expectancy + 1)
    /\ balance_data' = [k \in age..life_expectancy |-> None]
    /\ current_balance' = current_savings
    /\ year' = age
    /\ pc' = "fill_accumulation"
    /\ UNCHANGED <<inputs, futures, phases, swlocals, swresult, frame, verdict>>

\* lines 96-98: one iteration of the accumulation loop
FillAccumulation ==
    /\ pc = "fill_accumulation"
    /\ year < preretirement_start_age
    /\ LET b == calculate_phase_balance(current_balance, monthly_savings,
                                        accumulation_return, 1)
       IN /\ current_balance' = b
          /\ balance_keys' = KeysWith(balance_keys, balance_data, year)
          /\ balance_data' = DataWith(balance_data, year, Some(b))
    /\ year' = year + 1
    /\ UNCHANGED <<inputs, futures, phases, swlocals, swresult, frame, verdict, pc>>

\* line 96 exhausted; line 103 starts at preretirement_start_age
AccumulationLoopEnd ==
    /\ pc = "fill_accumulation"
    /\ year >= preretirement_start_age
    /\ year' = preretirement_start_age
    /\ pc' = "fill_preretirement"
    /\ UNCHANGED <<inputs, futures, phases, swlocals, swresult, frame, verdict,
                   balance_keys, balance_data, current_balance>>

\* lines 103-105: one iteration of the preretirement loop
FillPreretirement ==
    /\ pc = "fill_preretirement"
    /\ year < retirement_age
    /\ LET b == calculate_phase_balance(current_balance, monthly_savings,
                                        preretirement_return, 1)
       IN /\ current_balance' = b
          /\ balance_keys' = KeysWith(balance_keys, balance_data, year)
          /\ balance_data' = DataWith(balance_data, year, Some(b))
    /\ year' = year + 1
    /\ UNCHANGED <<inputs, futures, phases, swlocals, swresult, frame, verdict, pc>>

\* line 103 exhausted; line 107 starts at retirement_age
PreretirementLoopEnd ==
    /\ pc = "fill_preretirement"
    /\ year >= retirement_age
    /\ year' = retirement_age
    /\ pc' = "fill_retirement"
    /\ UNCHANGED <<inputs, futures, phases, swlocals, swresult, frame, verdict,
                   balance_keys, balance_data, current_balance>>

\* lines 107-109: one iteration of the retirement loop
FillRetirement ==
    /\ pc = "fill_retirement"
    /\ year < retirement_age + Len(retirement_balances)
    /\ LET i == year - retirement_age + 1
       IN /\ balance_keys' = KeysWith(balance_keys, balance_data, year)
          /\ balance_data' = DataWith(balance_data, year, Some(retirement_balances[i]))
    /\ year' = year + 1
    /\ UNCHANGED <<inputs, futures, phases, swlocals, swresult, frame, verdict,
                   current_balance, pc>>

\* line 107 exhausted; lines 112-113 build balance_df
BuildFrame ==
    /\ pc = "fill_retirement"
    /\ year >= retirement_age + Len(retirement_balances)
    /\ df_index' = balance_keys
    /\ df_balance' = balance_data
    /\ df_cumulative' = [k \in DOMAIN balance_data |-> None]
    /\ year' = 1
    /\ pc' = "fill_cumulative"
    /\ UNCHANGED <<inputs, futures, phases, swlocals, swresult, verdict,
                   balance_keys, balance_data, current_balance>>

\* lines 114-115: one iteration; year holds i + 1 of enumerate
FillCumulative ==
    /\ pc = "fill_cumulative"
    /\ year <= Len(cumulative_expenses)
    /\ LET k == CumulativeKey(retirement_age, year)
       IN /\ df_index' = KeysWith(df_index, df_cumulative, k)
          /\ df_balance' = RowWith(df_balance, k)
          /\ df_cumulative' = DataWith(df_cumulative, k, Some(cumulative_expenses[year]))
    /\ year' = year + 1
    /\ UNCHANGED <<inputs, futures, phases, swlocals, swresult, verdict,
                   balance_keys, balance_data, current_balance, pc>>

\* line 114 exhausted; lines 121, 160-165
Verdict ==
    /\ pc = "fill_cumulative"
    /\ year > Len(cumulative_expenses)
    /\ verdict' = IF df_index = <<>> THEN "will_not_last"
                  ELSE IF FundsLast(retirement_balances) THEN "success"
                  ELSE "may_run_out"
    /\ pc' = "done"
    /\ UNCHANGED <<inputs, futures, phases, swlocals, swresult, timeline, frame>>

Next ==
    \/ AdjustForInflation
    \/ PhaseCalculations
    \/ SimulateYear
    \/ SimulateLoopEnd
    \/ SimulateReturn
    \/ InitTimeline
    \/ FillAccumulation
    \/ AccumulationLoopEnd
    \/ FillPreretirement
    \/ PreretirementLoopEnd
    \/ FillRetirement
    \/ BuildFrame
    \/ FillCumulative
    \/ Verdict

Spec == Init /\ [][Next]_vars

\* ------------------------------------------------------------ properties
Last(seq) == seq[Len(seq)]
PhasesDone == pc \notin {"inflation", "phases"}
LoopsDone == pc \in {"fill_retirement", "fill_cumulative", "done"}
AgesInOrder == /\ age <= preretirement_start_age
               /\ preretirement_start_age <= retirement_age
               /\ retirement_age <= life_expectancy
Defined(col, k) == k \in DOMAIN col /\ col[k] /= None

\* C1: every element of the balance series of simulate_withdrawals is >= 0,
\* also in the year where the running balance itself is negative.
C1_BalancesNonNegative ==
    /\ \A i \in 1..Len(sw_balances) : sw_balances[i] >= 0
    /\ \A i \in 1..Len(retirement_balances) : retirement_balances[i] >= 0
\* The running balance is negative and the year was recorded as 0.
C1_Witness ==
    /\ sw_start_balance < 0
    /\ sw_balances /= <<>>
    /\ Last(sw_balances) = 0

\* C2: once the running balance is <= 0 after a year, no later year is
\* simulated: only the last element of the balance series can be 0, every
\* earlier element is > 0, and the series has at most `years` elements.
C2_EarlyTermination ==
    /\ Len(sw_balances) <= retirement_years
    /\ \A i \in 1..(Len(sw_balances) - 1) : sw_balances[i] > 0
    /\ (sw_balances /= <<>> /\ sw_start_balance <= 0) => pc /= "withdraw"
    /\ (sw_balances /= <<>> /\ Last(sw_balances) = 0) => sw_start_balance <= 0
    /\ Len(retirement_balances) <= retirement_years
    /\ \A i \in 1..(Len(retirement_balances) - 1) : retirement_balances[i] > 0
\* The simulation stopped after two or more years, before `years` years.
C2_Witness ==
    /\ pc = "done"
    /\ Len(retirement_balances) >= 2
    /\ Len(retirement_balances) < retirement_years
    /\ Last(retirement_balances) = 0

\* C3: the cumulative-expense series has the length of the balance series,
\* is non-decreasing, and is strictly increasing while the expense is
\* positive (with inflation >= 0 that is: when the first expense is).
C3_CumulativeMonotone ==
    /\ Len(sw_cumulative_expenses) = Len(sw_balances)
    /\ Len(cumulative_expenses) = Len(retirement_balances)
    /\ \A i \in 2..Len(sw_cumulative_expenses) :
           sw_cumulative_expenses[i] >= sw_cumulative_expenses[i - 1]
    /\ (PhasesDone /\ future_monthly_expenses > 0) =>
           /\ sw_cumulative_expenses /= <<>> => sw_cumulative_expenses[1] > 0
           /\ \A i \in 2..Len(sw_cumulative_expenses) :
                  sw_cumulative_expenses[i] > sw_cumulative_expenses[i - 1]
\* Three years of positive expenses were recorded.
C3_Witness ==
    /\ pc = "done"
    /\ future_monthly_expenses > 0
    /\ Len(cumulative_expenses) >= 3

\* C4: the verdict is "funds last" iff the withdrawal balance series is
\* non-empty and its last element is > 0; with retirementAge >=
\* lifeExpectancy the series is empty and the verdict is negative; after an
\* early stop the verdict is negative.
C4_Verdict ==
    pc = "done" =>
        /\ verdict = "success" <=>
               (retirement_balances /= <<>> /\ Last(retirement_balances) > 0)
        /\ retirement_age >= life_expectancy =>
               (retirement_balances = <<>> /\ verdict /= "success")
        /\ Len(retirement_balances) < retirement_years => verdict /= "success"
\* A run that ended with the positive verdict.
C4_Witness ==
    /\ pc = "done"
    /\ verdict = "success"
    /\ Len(retirement_balances) = retirement_years

\* C5: for every combination of the four ages the finished timeline is keyed
\* by exactly the ages age..lifeExpectancy, each once, in increasing order.
C5_TimelineKeys ==
    pc = "done" =>
        /\ balance_keys = RangeSeq(age, life_expectancy + 1)
        /\ df_index = RangeSeq(age, life_expectancy + 1)

\* C6: with the ages in order, retirementYears > 0 and a withdrawal
\* simulation that ran all its years, every age from age to lifeExpectancy
\* has a defined balance in the timeline.
C6_NoNullBalance ==
    (/\ pc = "done"
     /\ AgesInOrder
     /\ retirement_years > 0
     /\ Len(retirement_balances) = retirement_years
     /\ Last(retirement_balances) > 0) =>
        \A a \in age..life_expectancy : Defined(df_balance, a)

\* C7 (as stated): when preretirementStartAge < age the preretirement
\* duration is 0 and the balance entering the withdrawal simulation is the
\* result of the accumulation phase alone.
C7_PreretirementClamped ==
    (PhasesDone /\ preretirement_start_age < age) =>
        /\ preretirement_years = 0
        /\ preretirement_balance = accumulation_balance
\* C7 (amended): when preretirementStartAge < age the accumulation duration
\* is 0, the preretirement duration is max(retirementAge -
\* preretirementStartAge, 0), and the balance entering the withdrawal
\* simulation is the result of the preretirement phase alone, run from
\* currentSavings.
C7_AccumulationClamped ==
    (PhasesDone /\ preretirement_start_age < age) =>
        /\ accumulation_years = 0
        /\ accumulation_balance = current_savings
        /\ preretirement_years = Max(retirement_age - preretirement_start_age, 0)
        /\ preretirement_balance =
               MonthLoop(current_savings, monthly_savings,
                         RatePerPeriod(preretirement_return, MonthsPerYear),
                         MonthsPerYear * preretirement_years)
        /\ (pc = "withdraw" /\ sw_year = 0) => sw_start_balance = preretirement_balance
\* Preretirement started before the current age and still compounds.
C7_Witness ==
    /\ pc = "withdraw"
    /\ sw_year = 0
    /\ preretirement_start_age < age
    /\ preretirement_years > 0
    /\ preretirement_balance > current_savings

\* C8: a cumulative-expense value is present only at the ages retirementAge
\* .. retirementAge + len(series) - 1; no accumulation or preretirement age
\* has one; the values are non-decreasing in age.
C8_CumulativeOnlyInRetirement ==
    /\ \A k \in DOMAIN df_cumulative :
           df_cumulative[k] /= None =>
               /\ k >= retirement_age
               /\ k < retirement_age + Len(cumulative_expenses)
    /\ \A k \in age..(preretirement_start_age - 1) : ~Defined(df_cumulative, k)
    /\ \A k \in preretirement_start_age..(retirement_age - 1) : ~Defined(df_cumulative, k)
    /\ \A j, k \in DOMAIN df_cumulative :
           (j < k /\ df_cumulative[j] /= None /\ df_cumulative[k] /= None) =>
               df_cumulative[j][1] <= df_cumulative[k][1]
    /\ pc = "done" =>
           \A i \in 1..Len(cumulative_expenses) :
               /\ Defined(df_cumulative, retirement_age + i - 1)
               /\ df_cumulative[retirement_age + i - 1] = Some(cumulative_expenses[i])

C10_PathsAgree ==
    LoopsDone => current_balance = preretirement_balance
\* Out-of-order ages with a preretirement loop that compounds.
C10_Witness ==
    /\ pc = "done"
    /\ preretirement_start_age < age
    /\ preretirement_years > 0
    /\ current_balance > current_savings

=============================================================================
